---- MODULE Spec2Model ----
(***************************************************************************)
(* A model of execr (src/execr.ts): the argument normalizer, the           *)
(* synchronous runner exec with its memoized spawn, the asynchronous       *)
(* runner execAsync with its promise and child-process events, and the     *)
(* proxy-based fluent wrapper made by wrap / wrapAsync.                    *)
(*                                                                         *)
(* Text (commands, arguments, captured output, error messages, cache keys) *)
(* is modelled by TLA+ strings, so that trimming, joining, substring       *)
(* containment and JSON serialisation are computed character by character. *)
(***************************************************************************)
EXTENDS Integers, Sequences, FiniteSets, TLC

VARIABLES
  fn,          \* _wrap's fn parameter: "exec" (wrap) or "execAsync" (wrapAsync)
  cmd,         \* _wrap's cmd parameter
  defaultOpts, \* _wrap's defaultOpts parameter
  args,        \* _wrap's closure variable args: string[] | undefined
  staged,      \* history: the tokens the get handler pushed since the last call of _fn
  last,        \* history: the last completed operation, its inputs and its outcome
  children,    \* the child processes spawned by execAsync, with their promises
  cache,       \* the cache of memoizeSpawnSync
  spawnLog     \* history: the executions of the underlying spawn.sync

vars == <<fn, cmd, defaultOpts, args, staged, last, children, cache, spawnLog>>

----------------------------------------------------------------------------
(* Bounds of the model.                                                    *)

MaxTokens == 3    \* tokens held by a wrapper and by the children it spawned
MaxChildren == 2  \* calls of a wrapAsync wrapper
MaxEvents == 2    \* error/close events delivered to one child
MaxData == 1      \* data chunks delivered to one child
MaxStatus == 1    \* largest non-zero exit status of a child
MaxRuns == 3      \* memoized invocations of exec

----------------------------------------------------------------------------
(* JavaScript values.                                                      *)

\* A status, a signal, a captured stream: null, a number or a string.
Null == [t |-> "null", n |-> 0, s |-> ""]
Num(n) == [t |-> "number", n |-> n, s |-> ""]
Str(s) == [t |-> "string", n |-> 0, s |-> s]

\* An argument of a runner or of the wrapper: undefined, an array of strings
\* or a plain object (an options object).
EmptyObj == <<>>
Undefined == [t |-> "undefined", arr |-> <<>>, obj |-> EmptyObj]
Arr(a) == [t |-> "array", arr |-> a, obj |-> EmptyObj]
Obj(o) == [t |-> "object", arr |-> <<>>, obj |-> o]

\* The value of a property: undefined, or a function or object.
Undef == [t |-> "undefined", n |-> 0, s |-> ""]
Ref(what) == [t |-> "object", n |-> 0, s |-> what]

\* JavaScript truthiness.
Truthy(v) ==
  CASE v.t = "number" -> v.n # 0
    [] v.t = "string" -> v.s # ""
    [] v.t = "object" -> TRUE
    [] OTHER -> FALSE

\* a || b
Or(a, b) == IF Truthy(a) THEN a ELSE b

Digit(d) == SubSeq("0123456789", d + 1, d + 1)

RECURSIVE NatToString(_)
NatToString(n) == IF n < 10 THEN Digit(n) ELSE NatToString(n \div 10) \o Digit(n % 10)

\* `${v}` of a scalar.
StringOf(v) ==
  CASE v.t = "number" -> (IF v.n < 0 THEN "-" \o NatToString(-v.n) ELSE NatToString(v.n))
    [] v.t = "string" -> v.s
    [] OTHER -> "null"

IsSpace(c) == c \in {" ", "\n", "\t", "\r"}

RECURSIVE TrimStart(_)
TrimStart(s) ==
  IF Len(s) > 0 /\ IsSpace(SubSeq(s, 1, 1)) THEN TrimStart(SubSeq(s, 2, Len(s))) ELSE s

RECURSIVE TrimEnd(_)
TrimEnd(s) ==
  IF Len(s) > 0 /\ IsSpace(SubSeq(s, Len(s), Len(s)))
  THEN TrimEnd(SubSeq(s, 1, Len(s) - 1))
  ELSE s

\* String.prototype.trim
Trim(s) == TrimEnd(TrimStart(s))

\* Array.prototype.join
RECURSIVE Join(_, _)
Join(a, sep) ==
  IF Len(a) = 0 THEN ""
  ELSE IF Len(a) = 1 THEN a[1]
  ELSE a[1] \o sep \o Join(Tail(a), sep)

\* String.prototype.includes
Includes(s, part) ==
  \E i \in 1..(Len(s) - Len(part) + 1) : SubSeq(s, i, i + Len(part) - 1) = part

\* { ...a, ...b }
Spread(a, b) ==
  [k \in (DOMAIN a) \cup (DOMAIN b) |-> IF k \in DOMAIN b THEN b[k] ELSE a[k]]

\* "k" in o, in place of o.k
FlagPresent(o, k) == k \in DOMAIN o

\* o.k as a condition
Flag(o, k) == k \in DOMAIN o /\ o[k] = TRUE

----------------------------------------------------------------------------
(* The argument normalizer.                                                *)

\* maybeArgs.filter(Boolean): the empty string is the one falsy string.
FilterBoolean(a) == SelectSeq(a, LAMBDA s : s # "")

isObject(maybeObj) == maybeObj.t = "object"

GlobalDefaultOpts ==
  [maxBuffer |-> 1024 * 1024 * 10, failOnError |-> TRUE, memoize |-> FALSE]

normalizeArgs(maybeArgs, suppliedOptions, defaultOptions) ==
  LET normalizedDefaultOpts ==
        IF defaultOptions.t = "object" THEN defaultOptions.obj ELSE EmptyObj
      chosenOpts ==
        IF isObject(maybeArgs) THEN maybeArgs.obj
        ELSE IF suppliedOptions.t = "object" THEN suppliedOptions.obj
        ELSE EmptyObj
      finalOpts == Spread(Spread(GlobalDefaultOpts, normalizedDefaultOpts), chosenOpts)
      finalArgs == IF maybeArgs.t = "array" THEN FilterBoolean(maybeArgs.arr) ELSE <<>>
  IN  [args |-> finalArgs, opts |-> finalOpts]

----------------------------------------------------------------------------
(* JSON.stringify, as the resolver of memoizeSpawnSync uses it.            *)

RECURSIVE JSONEscape(_)
JSONEscape(s) ==
  IF Len(s) = 0 THEN ""
  ELSE LET c == SubSeq(s, 1, 1)
           rest == JSONEscape(SubSeq(s, 2, Len(s)))
       IN  CASE c = "\"" -> "\\\"" \o rest
             [] c = "\\" -> "\\\\" \o rest
             [] c = "\n" -> "\\n" \o rest
             [] c = "\t" -> "\\t" \o rest
             [] c = "\r" -> "\\r" \o rest
             [] OTHER -> c \o rest

JSONString(s) == "\"" \o JSONEscape(s) \o "\""

JSONArray(a) == "[" \o Join([i \in 1..Len(a) |-> JSONString(a[i])], ",") \o "]"

\* The keys of an options object in insertion order: the global defaults
\* come first in every spread of normalizeArgs, pass-through keys after.
KeyOrder == <<"maxBuffer", "failOnError", "memoize", "cwd">>

JSONMember(o, k) ==
  JSONString(k) \o ":" \o
    (CASE k = "maxBuffer" -> NatToString(o[k])
       [] k \in {"failOnError", "memoize"} -> (IF o[k] THEN "true" ELSE "false")
       [] OTHER -> JSONString(o[k]))

JSONObject(o) ==
  LET keys == SelectSeq(KeyOrder, LAMBDA k : k \in DOMAIN o)
  IN  "{" \o Join([i \in 1..Len(keys) |-> JSONMember(o, keys[i])], ",") \o "}"

\* An invocation of the spawn primitive: (command, args, options).
Invocation(c, endArgs, execOpts) == [cmd |-> c, args |-> endArgs, opts |-> execOpts]

\* A resolver that joins the command line with spaces, as the error
\* messages do, in place of serialising it.
ResolverJoined(c, endArgs, execOpts) ==
  c \o " " \o Join(endArgs, " ") \o " " \o JSONObject(execOpts)

\* (...args) => JSON.stringify(args)
Resolver(c, endArgs, execOpts) ==
  "[" \o JSONString(c) \o "," \o JSONArray(endArgs) \o "," \o JSONObject(execOpts) \o "]"

----------------------------------------------------------------------------
(* The spawn primitive, as the runners see it.                             *)

\* child_process.spawn and spawnSync throw a TypeError, before any child
\* exists, when the file to run is the empty string.
SpawnThrows(c) == c = ""

SpawnTypeError == "TypeError [ERR_INVALID_ARG_VALUE]: The argument 'file' cannot be empty."

\* What spawn.sync can return: a normal exit, an exit with a non-zero
\* status, a termination by signal, and a spawn-level error (the command
\* was not found: no status, no signal, no captured streams, error set).
SyncResults ==
  {[status |-> Num(0), signal |-> Null, stdout |-> Str(" ok\n"), stderr |-> Str(""),
    error |-> FALSE]}
  \cup {[status |-> Num(n), signal |-> Null, stdout |-> Str(""), stderr |-> Str(" bad\n"),
         error |-> FALSE] : n \in 1..MaxStatus}
  \cup {[status |-> Null, signal |-> Str("SIGTERM"), stdout |-> Str("part"),
         stderr |-> Str(" bad\n"), error |-> FALSE]}
  \cup {[status |-> Null, signal |-> Null, stdout |-> Null, stderr |-> Null,
         error |-> TRUE]}

HasKey(ch, key) == \E e \in ch : e.key = key
Entry(ch, key) == CHOOSE e \in ch : e.key = key

\* memoizeSpawnSync = memoize(spawn.sync, resolver): r is what spawn.sync
\* returns if it runs. The entry remembers the invocation that made it.
memoizeSpawnSync(c, endArgs, execOpts, r, ch) ==
  LET key == Resolver(c, endArgs, execOpts)
  IN  IF HasKey(ch, key)
      THEN [result |-> Entry(ch, key).result, ran |-> FALSE, key |-> key, cache |-> ch]
      ELSE [result |-> r, ran |-> TRUE, key |-> key,
            cache |-> ch \cup {[key |-> key, result |-> r,
                                inv |-> Invocation(c, endArgs, execOpts)]}]

spawnSync(c, endArgs, execOpts, r, ch) ==
  [result |-> r, ran |-> TRUE, key |-> "", cache |-> ch]

----------------------------------------------------------------------------
(* The synchronous runner.                                                 *)

Return(status, stdout, stderr) ==
  [kind |-> "return", status |-> status, stdout |-> stdout, stderr |-> stderr,
   message |-> ""]
Throw(message) ==
  [kind |-> "throw", status |-> Null, stdout |-> "", stderr |-> "", message |-> message]

\* The message without the captured stderr.
FailedMessageNoStderr(c, endArgs, status, signal, stderr) ==
  c \o " " \o Join(endArgs, " ") \o " failed. Status " \o StringOf(status)
    \o ", Signal " \o StringOf(signal) \o "."

FailedMessage(c, endArgs, status, signal, stderr) ==
  c \o " " \o Join(endArgs, " ") \o " failed. Status " \o StringOf(status)
    \o ", Signal " \o StringOf(signal) \o ".\n" \o StringOf(stderr)

\* exec(c, maybeArgs, opts), where r is what spawn.sync returns if it runs
\* and ch is the cache before the call.
exec(c, maybeArgs, opts, r, ch) ==
  LET n == normalizeArgs(maybeArgs, opts, Undefined)
      endArgs == n.args
      execOpts == n.opts
      inv == Invocation(c, endArgs, execOpts)
      memo == Flag(execOpts, "memoize")
  IN  IF SpawnThrows(c)
      THEN [inv |-> inv, memo |-> memo, ran |-> FALSE, cache |-> ch,
            key |-> "", used |-> r, outcome |-> Throw(SpawnTypeError)]
      ELSE LET s == IF memo THEN memoizeSpawnSync(c, endArgs, execOpts, r, ch)
                    ELSE spawnSync(c, endArgs, execOpts, r, ch)
               result == s.result
               failed == (Truthy(result.status) /\ result.status.n > 0)
                           \/ Truthy(result.signal)
           IN  [inv |-> inv, memo |-> memo, ran |-> s.ran, cache |-> s.cache,
                key |-> s.key, used |-> result,
                outcome |->
                  IF failed /\ Flag(execOpts, "failOnError")
                  THEN Throw(FailedMessage(c, endArgs, result.status, result.signal,
                                           result.stderr))
                  ELSE Return(Or(result.status, result.signal),
                              Trim(StringOf(result.stdout)),
                              Trim(StringOf(result.stderr)))]

----------------------------------------------------------------------------
(* The fluent wrapper: _wrap(fn, cmd, defaultOpts).                        *)

\* The closure variable args: undefined, or an array.
NoArgs == [def |-> FALSE, arr |-> <<>>]
SomeArgs(a) == [def |-> TRUE, arr |-> a]

\* if (!args) { args = []; }
Ensure(a) == IF a.def THEN a ELSE SomeArgs(<<>>)

\* The property names a caller reads: a subcommand name, two intrinsic
\* properties of a function, and one symbol.
Props == {"branch", "length", "name", "@@toPrimitive"}

IsSymbol(prop) == prop = "@@toPrimitive"

\* proxiedObj[prop], proxiedObj being _fn: a function named _fn whose one
\* formal parameter is a rest parameter, so that its length is 0.
FnProp(prop) ==
  CASE prop = "length" -> Num(0)
    [] prop = "name" -> Str("_fn")
    [] prop = "bind" -> Ref("Function.prototype.bind")
    [] OTHER -> Undef

\* The names that are properties of the callable itself.
Intrinsic == {p \in Props : FnProp(p) # Undef}

\* The get handler returns the target's own property ...
ReturnsOwn(prop) == Truthy(FnProp(prop)) \/ IsSymbol(prop)

\* args.push(prop.toString())
Push(a, prop) == SomeArgs(Append(a.arr, prop))

\* args.concat(endArgs), the other way round
ConcatReversed(a, endArgs) == endArgs \o a

\* args.concat(endArgs)
Concat(a, endArgs) == a \o endArgs

\* A finally block that runs on a normal return only.
ClearOnReturn(a, outcome) == IF outcome.kind = "throw" THEN a ELSE NoArgs

\* A wrapper that keeps its tokens.
NeverClear(a, outcome) == a

\* finally { args = undefined; }
Finally(a, outcome) == NoArgs

----------------------------------------------------------------------------
(* The asynchronous runner: the promise of execAsync and its handlers.     *)

NoResult == [status |-> Null, stdout |-> "", stderr |-> ""]
Pending == [state |-> "pending", value |-> NoResult, reason |-> ""]

\* A resolve that replaces an outcome already fixed.
resolveOverwrite(p, v) == [state |-> "fulfilled", value |-> v, reason |-> ""]

\* The resolve function of new Promise: a settled promise stays as it is.
resolve(p, v) ==
  IF p.state = "pending" THEN [state |-> "fulfilled", value |-> v, reason |-> ""] ELSE p

\* The reject function of new Promise.
reject(p, reason) ==
  IF p.state = "pending"
  THEN [state |-> "rejected", value |-> NoResult, reason |-> reason]
  ELSE p

\* promise.status, promise.stdout, promise.stderr: promise.then(result => result.f)
FieldNames == <<"status", "stdout", "stderr">>
FieldPending == [state |-> "pending", value |-> Null, reason |-> ""]
FieldValue(result, f) ==
  CASE f = "status" -> result.status
    [] f = "stdout" -> Str(result.stdout)
    [] OTHER -> Str(result.stderr)

\* The reaction of one field promise to the settled aggregate promise.
React(p, f) ==
  IF p.state = "fulfilled"
  THEN [state |-> "fulfilled", value |-> FieldValue(p.value, f), reason |-> ""]
  ELSE [state |-> "rejected", value |-> Null, reason |-> p.reason]

\* execAsync up to its return: the child as spawned, listeners attached, the
\* promise pending. events and ndata are history (what was delivered).
NewChild(c, maybeArgs, opts) ==
  LET n == normalizeArgs(maybeArgs, opts, Undefined)
  IN  [cmd |-> c, args |-> n.args, opts |-> n.opts,
       stdout |-> "", stderr |-> "",
       promise |-> Pending,
       fields |-> [f \in {"status", "stdout", "stderr"} |-> FieldPending],
       jobs |-> <<>>,
       events |-> <<>>, ndata |-> 0]

ErroredMessage(ch, err) ==
  Trim(ch.cmd \o " " \o Join(ch.args, " ") \o " errored.\n" \o err)

\* childProcess.on("error", err => ...)
OnError(ch, err) ==
  LET p1 == IF Flag(ch.opts, "failOnError")
            THEN reject(ch.promise, ErroredMessage(ch, err))
            ELSE ch.promise
  IN  resolve(p1, [status |-> Num(-1), stdout |-> "", stderr |-> Trim(err)])

\* childProcess.on("close", (status, signal) => ...): null > 0 is false.
OnClose(ch, status, signal) ==
  LET failed == (status.t = "number" /\ status.n > 0) \/ Truthy(signal)
      p1 == IF failed /\ Flag(ch.opts, "failOnError")
            THEN reject(ch.promise,
                        FailedMessage(ch.cmd, ch.args, status, signal, Str(ch.stderr)))
            ELSE ch.promise
  IN  resolve(p1, [status |-> Or(status, signal), stdout |-> Trim(ch.stdout),
                   stderr |-> Trim(ch.stderr)])

\* The child after one of its handlers ran: settling the promise queues the
\* reactions of the three field promises.
Settled(ch, p, ev) ==
  [ch EXCEPT !.promise = p,
             !.jobs = IF ch.promise.state = "pending" /\ p.state # "pending"
                      THEN FieldNames ELSE ch.jobs,
             !.events = Append(ch.events, ev)]

----------------------------------------------------------------------------
(* The inputs the callers and the operating system supply.                 *)

Cmds == {"git", ""}
CallArgs == {Undefined, Arr(<<"", "-v">>), Obj([failOnError |-> FALSE])}
CallOpts == {Undefined, Obj([failOnError |-> FALSE])}
WrapArgs == {Undefined, Arr(<<"", "-v">>)}
WrapDefaults == {Undefined, Obj([failOnError |-> FALSE])}

\* The memoized invocations: argument lists that differ only in where the
\* words are split, or only in a falsy entry.
MemoArgs == {Arr(<<"a", "b">>), Arr(<<"a b">>), Arr(<<"a", "", "b">>)}
MemoOpts == {Obj([memoize |-> TRUE]), Obj([memoize |-> TRUE, failOnError |-> FALSE])}

\* `${err}` of the Error a child emits: the spawn failed (the command was
\* not found), or the running child was aborted through options.signal.
ErrorTexts == {"Error: spawn git ENOENT", "AbortError: The operation was aborted"}
IsSpawnError(err) == err = "Error: spawn git ENOENT"

\* The chunks the child writes to its streams.
Chunk(stream) == IF stream = "stdout" THEN " out\n" ELSE " bad\n"

\* (status, signal) of a close event: an exit status, a signal, or the
\* negative errno that follows a failed spawn.
CloseEvents ==
  {[status |-> Num(n), signal |-> Null] : n \in 0..MaxStatus}
  \cup {[status |-> Null, signal |-> Str("SIGTERM")]}
  \cup {[status |-> Num(-2), signal |-> Null]}

----------------------------------------------------------------------------
(* The state after construction.                                           *)

InitRest ==
  /\ args = SomeArgs(<<>>)
  /\ staged = <<>>
  /\ last = [op |-> "none"]
  /\ children = <<>>
  /\ cache = {}
  /\ spawnLog = <<>>

\* The runners alone; the wrapper is made and not used.
Init ==
  /\ fn = "exec"
  /\ cmd = "git"
  /\ defaultOpts = Undefined
  /\ InitRest

\* wrap(cmd, defaultOptions) or wrapAsync(cmd, defaultOptions)
InitWrap ==
  /\ fn \in {"exec", "execAsync"}
  /\ cmd \in Cmds
  /\ defaultOpts \in WrapDefaults
  /\ InitRest

----------------------------------------------------------------------------
(* The operations.                                                         *)

\* Promise reactions run before the next event or call is served.
Quiet == \A i \in 1..Len(children) : children[i].jobs = <<>>

\* The tokens the wrapper holds and the tokens its children were given.
RECURSIVE TokensOf(_)
TokensOf(chs) == IF chs = <<>> THEN 0 ELSE Len(Head(chs).tokens) + TokensOf(Tail(chs))
Held == Len(Ensure(args).arr) + TokensOf(children)

Closed(ch) == \E k \in 1..Len(ch.events) : ch.events[k].type = "close"
Errored(ch) == \E k \in 1..Len(ch.events) : ch.events[k].type = "error"
SpawnFailed(ch) == \E k \in 1..Len(ch.events) : IsSpawnError(ch.events[k].err)

\* handler.get, the property is the target's own: it is returned.
GetOwn(prop) ==
  /\ Quiet
  /\ ReturnsOwn(prop)
  /\ last' = [op |-> "get", prop |-> prop, own |-> TRUE, value |-> FnProp(prop),
              before |-> args]
  /\ UNCHANGED <<fn, cmd, defaultOpts, args, staged, children, cache, spawnLog>>

\* handler.get, otherwise: the name is pushed and the proxy returned.
GetToken(prop) ==
  /\ Quiet
  /\ ~ReturnsOwn(prop)
  /\ Held < MaxTokens
  /\ args' = Push(Ensure(args), prop)
  /\ staged' = Append(staged, prop)
  /\ last' = [op |-> "get", prop |-> prop, own |-> FALSE, value |-> Undef,
              before |-> args]
  /\ UNCHANGED <<fn, cmd, defaultOpts, children, cache, spawnLog>>

\* The memoized executions, logged.
Logged(c, A, O, e) ==
  IF e.memo
  THEN Append(spawnLog, [cmd |-> c, A |-> A, O |-> O, inv |-> e.inv, key |-> e.key,
                         ran |-> e.ran, result |-> e.used])
  ELSE spawnLog

\* _fn of wrap: the call runs exec to its end.
CallSync(A, O, r) ==
  /\ Quiet
  /\ fn = "exec"
  /\ \E n \in {normalizeArgs(A, O, defaultOpts)} :
     \E e \in {exec(cmd, Arr(Concat(Ensure(args).arr, n.args)), Obj(n.opts), r, cache)} :
         /\ Flag(n.opts, "memoize") => Len(spawnLog) < MaxRuns
         /\ args' = Finally(Ensure(args), e.outcome)
         /\ last' = [op |-> "call", staged |-> staged, A |-> A, O |-> O, r |-> e.used,
                     inv |-> e.inv, outcome |-> e.outcome]
         /\ cache' = e.cache
         /\ spawnLog' = Logged(cmd, A, O, e)
  /\ staged' = <<>>
  /\ UNCHANGED <<fn, cmd, defaultOpts, children>>

Promised(i) ==
  [kind |-> "promise", status |-> Num(i), stdout |-> "", stderr |-> "", message |-> ""]

\* _fn of wrapAsync: the call returns the promise of execAsync, or throws
\* what spawn throws.
CallAsync(A, O) ==
  /\ Quiet
  /\ fn = "execAsync"
  /\ LET a == Ensure(args).arr
         n == normalizeArgs(A, O, defaultOpts)
         ch == NewChild(cmd, Arr(Concat(a, n.args)), Obj(n.opts))
         outcome == IF SpawnThrows(cmd) THEN Throw(SpawnTypeError)
                    ELSE Promised(Len(children) + 1)
     IN  /\ SpawnThrows(cmd) \/ Len(children) < MaxChildren
         /\ children' = IF SpawnThrows(cmd) THEN children
                        ELSE Append(children, ch @@ [tokens |-> staged, A |-> A])
         /\ args' = Finally(Ensure(args), outcome)
         /\ last' = [op |-> "call", staged |-> staged, A |-> A, O |-> O, r |-> Null,
                     inv |-> Invocation(ch.cmd, ch.args, ch.opts), outcome |-> outcome]
  /\ staged' = <<>>
  /\ UNCHANGED <<fn, cmd, defaultOpts, cache, spawnLog>>

\* exec(c, A, O), called directly.
Exec(c, A, O, r) ==
  /\ Quiet
  /\ Flag(normalizeArgs(A, O, Undefined).opts, "memoize") => Len(spawnLog) < MaxRuns
  /\ \E e \in {exec(c, A, O, r, cache)} :
         /\ last' = [op |-> "exec", cmd |-> c, A |-> A, O |-> O, r |-> e.used,
                     inv |-> e.inv, outcome |-> e.outcome]
         /\ cache' = e.cache
         /\ spawnLog' = Logged(c, A, O, e)
  /\ UNCHANGED <<fn, cmd, defaultOpts, args, staged, children>>

\* execAsync(c, A, O), called directly: one run is followed to its end.
ExecAsync(c, A, O) ==
  /\ children = <<>>
  /\ LET ch == NewChild(c, A, O)
         outcome == IF SpawnThrows(c) THEN Throw(SpawnTypeError) ELSE Promised(1)
     IN  /\ children' = IF SpawnThrows(c) THEN children
                        ELSE <<ch @@ [tokens |-> <<>>, A |-> A]>>
         /\ last' = [op |-> "execAsync", cmd |-> c, A |-> A, O |-> O, r |-> Null,
                     inv |-> Invocation(ch.cmd, ch.args, ch.opts), outcome |-> outcome]
  /\ UNCHANGED <<fn, cmd, defaultOpts, args, staged, cache, spawnLog>>

\* childProcess.stdout / stderr "data": the chunk is appended.
Data(i, stream) ==
  /\ Quiet
  /\ i \in 1..Len(children)
  /\ ~Closed(children[i])
  /\ ~SpawnFailed(children[i])
  /\ children[i].ndata < MaxData
  /\ children' = [children EXCEPT ![i] =
                    IF stream = "stdout"
                    THEN [@ EXCEPT !.stdout = @ \o Chunk(stream), !.ndata = @ + 1]
                    ELSE [@ EXCEPT !.stderr = @ \o Chunk(stream), !.ndata = @ + 1]]
  /\ UNCHANGED <<fn, cmd, defaultOpts, args, staged, last, cache, spawnLog>>

Event(type, status, signal, err, ch) ==
  [type |-> type, status |-> status, signal |-> signal, err |-> err,
   stderr |-> ch.stderr]

\* The child emits "error". A failed spawn is reported first and once, by
\* a child that never ran.
Error(i, err) ==
  /\ Quiet
  /\ i \in 1..Len(children)
  /\ Len(children[i].events) < MaxEvents
  /\ ~SpawnFailed(children[i])
  /\ IsSpawnError(err) => children[i].events = <<>> /\ children[i].ndata = 0
  /\ LET ch == children[i]
     IN  children' = [children EXCEPT ![i] =
                        Settled(ch, OnError(ch, err), Event("error", Null, Null, err, ch))]
  /\ UNCHANGED <<fn, cmd, defaultOpts, args, staged, last, cache, spawnLog>>

\* The child emits "close". A negative status is the errno of a spawn that
\* failed, which was reported by an "error" first; a child that ran closes
\* with its exit status or its signal.
Close(i, status, signal) ==
  /\ Quiet
  /\ i \in 1..Len(children)
  /\ Len(children[i].events) < MaxEvents
  /\ status.n < 0 <=> SpawnFailed(children[i])
  /\ LET ch == children[i]
     IN  children' = [children EXCEPT ![i] =
                        Settled(ch, OnClose(ch, status, signal),
                                Event("close", status, signal, "", ch))]
  /\ UNCHANGED <<fn, cmd, defaultOpts, args, staged, last, cache, spawnLog>>

\* The queued reactions run, one after the other with nothing in between:
\* each field promise follows the aggregate promise.
Reaction(i) ==
  /\ i \in 1..Len(children)
  /\ children[i].jobs # <<>>
  /\ LET ch == children[i]
         queued == {ch.jobs[k] : k \in 1..Len(ch.jobs)}
     IN  children' = [children EXCEPT ![i] =
                        [ch EXCEPT !.fields = [f \in DOMAIN ch.fields |->
                                                 IF f \in queued THEN React(ch.promise, f)
                                                 ELSE ch.fields[f]],
                                   !.jobs = <<>>]]
  /\ UNCHANGED <<fn, cmd, defaultOpts, args, staged, last, cache, spawnLog>>

----------------------------------------------------------------------------
(* The specifications.                                                     *)

\* The two runners, called directly, and the events of the child.
Next ==
  \/ \E c \in Cmds, A \in CallArgs, O \in CallOpts, r \in SyncResults :
       children = <<>> /\ Exec(c, A, O, r)
  \/ \E c \in Cmds, A \in CallArgs, O \in CallOpts : ExecAsync(c, A, O)
  \/ \E i \in 1..MaxChildren, stream \in {"stdout", "stderr"} : Data(i, stream)
  \/ \E i \in 1..MaxChildren, err \in ErrorTexts : Error(i, err)
  \/ \E i \in 1..MaxChildren, ev \in CloseEvents : Close(i, ev.status, ev.signal)
  \/ \E i \in 1..MaxChildren : Reaction(i)

Spec == Init /\ [][Next]_vars

\* A wrapper in use: property reads, calls, and the children of a
\* wrapAsync wrapper closing, each once. The options of a wrapAsync call
\* are the wrapper's defaults.
NextWrap ==
  \/ \E prop \in Props : GetOwn(prop)
  \/ \E prop \in Props : GetToken(prop)
  \/ \E A \in WrapArgs, O \in CallOpts, r \in SyncResults : CallSync(A, O, r)
  \/ \E A \in WrapArgs : CallAsync(A, Undefined)
  \/ \E i \in 1..MaxChildren :
       /\ i \in 1..Len(children)
       /\ children[i].events = <<>>
       /\ Close(i, Num(0), Null)
  \/ \E i \in 1..MaxChildren : Reaction(i)

SpecWrap == InitWrap /\ [][NextWrap]_vars

\* Memoized invocations of exec.
NextMemo ==
  \E A \in MemoArgs, O \in MemoOpts, r \in SyncResults : Exec("git", A, O, r)

SpecMemo == Init /\ [][NextMemo]_vars

----------------------------------------------------------------------------
(* The claims.                                                             *)

ChildIds == 1..Len(children)
FailOnError(opts) == opts["failOnError"] = TRUE

\* A run-level failure: a non-zero exit status, or a termination by signal.
RunFailed(status, signal) ==
  (status.t = "number" /\ status.n > 0) \/ signal.t = "string"
ExitedZero(status, signal) == status = Num(0) /\ signal = Null

\* The first close event of a child, and whether an error came before it.
FirstCloseAt(ch) ==
  CHOOSE k \in 1..Len(ch.events) :
    ch.events[k].type = "close" /\ \A j \in 1..(k - 1) : ch.events[j].type # "close"
FirstClose(ch) == ch.events[FirstCloseAt(ch)]
CloseCameFirst(ch) == ch.events # <<>> /\ ch.events[1].type = "close"

\* The direct call of exec that last completed, when spawn.sync ran a child.
ExecDone == last.op = "exec" /\ ~SpawnThrows(last.cmd) /\ ~last.r.error

NonIntrinsic(tokens) == \A k \in 1..Len(tokens) : tokens[k] \notin Intrinsic

\* C1: the pending token list is always exactly the tokens staged since the
\* last invocation of the wrapper, so it is empty when an invocation has
\* returned or thrown, and an invocation passes the tokens staged since the
\* invocation before it, followed by its own arguments, and nothing else.
C1_PendingClearedAfterCall ==
  /\ Ensure(args).arr = staged
  /\ last.op = "call" =>
       /\ Ensure(args).arr = <<>>
       /\ last.inv.args = last.staged \o FilterBoolean(last.A.arr)

\* A call of wrap's wrapper that threw with tokens staged.
C1_Witness ==
  /\ last.op = "call"
  /\ last.outcome.kind = "throw"
  /\ Len(last.staged) >= 2
  /\ cmd = "git"
  /\ args = NoArgs

C3_Original ==
  /\ (ExecDone /\ RunFailed(last.r.status, last.r.signal) /\ FailOnError(last.inv.opts))
       => /\ last.outcome.kind = "throw"
          /\ Includes(last.outcome.message, last.cmd)
          /\ Includes(last.outcome.message, StringOf(last.r.stderr))
  /\ \A i \in ChildIds :
       LET ch == children[i]
       IN  (Closed(ch) /\ RunFailed(FirstClose(ch).status, FirstClose(ch).signal)
              /\ FailOnError(ch.opts))
             => /\ ch.promise.state = "rejected"
                /\ Includes(ch.promise.reason, ch.cmd)
                /\ Includes(ch.promise.reason, FirstClose(ch).stderr)

\* C3, amended: as stated, except that the promise of execAsync carries the
\* captured stderr only when the close is the child's first event; when an
\* error event came before it, the promise is rejected with the message of
\* that event, which contains the command and the error's text.
C3_FailureThrows ==
  /\ (ExecDone /\ RunFailed(last.r.status, last.r.signal) /\ FailOnError(last.inv.opts))
       => /\ last.outcome.kind = "throw"
          /\ Includes(last.outcome.message, last.cmd)
          /\ Includes(last.outcome.message, StringOf(last.r.stderr))
  /\ \A i \in ChildIds :
       LET ch == children[i]
       IN  (Closed(ch) /\ RunFailed(FirstClose(ch).status, FirstClose(ch).signal)
              /\ FailOnError(ch.opts))
             => /\ ch.promise.state = "rejected"
                /\ Includes(ch.promise.reason, ch.cmd)
                /\ IF CloseCameFirst(ch)
                   THEN Includes(ch.promise.reason, FirstClose(ch).stderr)
                   ELSE Includes(ch.promise.reason, ch.events[1].err)

\* A child that wrote to stderr and closed with a failure, its promise
\* rejected.
C3_Witness ==
  \E i \in ChildIds :
    /\ CloseCameFirst(children[i])
    /\ RunFailed(children[i].events[1].status, children[i].events[1].signal)
    /\ children[i].events[1].stderr = " bad\n"
    /\ children[i].promise.state = "rejected"

\* C4 as stated: a run-level failure under failOnError = false neither
\* throws nor rejects, and the status returned is the non-zero exit status.
C4_Original ==
  /\ (ExecDone /\ RunFailed(last.r.status, last.r.signal) /\ ~FailOnError(last.inv.opts))
       => /\ last.outcome.kind = "return"
          /\ last.r.status.t = "number" => last.outcome.status = last.r.status
  /\ \A i \in ChildIds :
       LET ch == children[i]
       IN  (Closed(ch) /\ RunFailed(FirstClose(ch).status, FirstClose(ch).signal)
              /\ ~FailOnError(ch.opts))
             => /\ ch.promise.state = "fulfilled"
                /\ FirstClose(ch).status.t = "number"
                     => ch.promise.value.status = FirstClose(ch).status

\* C4, amended: as stated, except that execAsync resolves with the exit
\* status only when the close is the child's first event; when an error
\* event came before it, the promise has resolved with status -1.
C4_FailureReturned ==
  /\ (ExecDone /\ RunFailed(last.r.status, last.r.signal) /\ ~FailOnError(last.inv.opts))
       => /\ last.outcome.kind = "return"
          /\ last.r.status.t = "number" => last.outcome.status = last.r.status
  /\ \A i \in ChildIds :
       LET ch == children[i]
       IN  (Closed(ch) /\ RunFailed(FirstClose(ch).status, FirstClose(ch).signal)
              /\ ~FailOnError(ch.opts))
             => /\ ch.promise.state = "fulfilled"
                /\ FirstClose(ch).status.t = "number"
                     => ch.promise.value.status =
                          IF CloseCameFirst(ch) THEN FirstClose(ch).status ELSE Num(-1)

\* exec returned the failing status of a command run with failOnError = false.
C4_Witness ==
  /\ ExecDone
  /\ last.r.status = Num(1)
  /\ last.O = Obj([failOnError |-> FALSE])
  /\ last.outcome.kind = "return"
  /\ last.outcome.status = Num(1)

\* C5 as stated: a child that exits with status 0 and no signal gives a
\* result whose status is 0, from exec and from execAsync, whatever
\* failOnError is.
C5_Original ==
  /\ (ExecDone /\ ExitedZero(last.r.status, last.r.signal))
       => last.outcome.kind = "return" /\ last.outcome.status = Num(0)
  /\ \A i \in ChildIds :
       LET ch == children[i]
       IN  (CloseCameFirst(ch) /\ ExitedZero(ch.events[1].status, ch.events[1].signal))
             => ch.promise.state = "fulfilled" /\ ch.promise.value.status = Num(0)

\* C6 as stated: a spawn-level error gives status -1 under failOnError =
\* false, and a throw or a rejection under failOnError = true.
C6_Original ==
  /\ (last.op = "exec" /\ ~SpawnThrows(last.cmd) /\ last.r.error)
       => IF FailOnError(last.inv.opts)
          THEN last.outcome.kind = "throw"
          ELSE last.outcome.kind = "return" /\ last.outcome.status = Num(-1)
  /\ \A i \in ChildIds :
       LET ch == children[i]
       IN  SpawnFailed(ch)
             => IF FailOnError(ch.opts)
                THEN ch.promise.state = "rejected"
                ELSE ch.promise.state = "fulfilled" /\ ch.promise.value.status = Num(-1)

\* Two logged invocations of exec were given the same command, argument
\* list and options.
SameCall(x, y) == x.cmd = y.cmd /\ x.A = y.A /\ x.O = y.O
LogIds == 1..Len(spawnLog)

C8_Original ==
  (last.op = "get" /\ last.prop \in Intrinsic)
    => /\ last.own
       /\ last.value = FnProp(last.prop)
       /\ args = last.before

\* What the first event of a child makes of its promise.
FirstIsFailure(ev) == ev.type = "error" \/ RunFailed(ev.status, ev.signal)
FieldsFollow(ch) ==
  \A f \in {"status", "stdout", "stderr"} :
    LET fp == ch.fields[f]
    IN  /\ fp.state # "pending" => fp.state = ch.promise.state
        /\ fp.state = "fulfilled" => fp.value = FieldValue(ch.promise.value, f)
        /\ fp.state = "rejected" => fp.reason = ch.promise.reason
        /\ (ch.promise.state # "pending" /\ ch.jobs = <<>>) => fp.state # "pending"

\* C9: the promise of execAsync is settled by the first error or close
\* event and by nothing after it: whatever events follow, it is rejected
\* exactly when failOnError is true and the first event is a failure, and is
\* otherwise fulfilled with the result of the first event; the field
\* promises settle as the promise did.
C9_SettledByFirstEvent ==
  \A i \in ChildIds :
    LET ch == children[i]
        first == ch.events[1]
    IN  /\ ch.events = <<>> => ch.promise.state = "pending"
        /\ ch.events # <<>> =>
             /\ ch.promise.state =
                  IF FailOnError(ch.opts) /\ FirstIsFailure(first)
                  THEN "rejected" ELSE "fulfilled"
             /\ ch.promise.state = "rejected" =>
                  Includes(ch.promise.reason,
                           IF first.type = "error" THEN first.err ELSE "failed.")
             /\ ch.promise.state = "fulfilled" =>
                  /\ ch.promise.value.status =
                       IF first.type = "error" THEN Num(-1)
                       ELSE Or(first.status, first.signal)
                  /\ ch.promise.value.stderr =
                       IF first.type = "error" THEN first.err ELSE Trim(first.stderr)
        /\ FieldsFollow(ch)

\* A child that emitted an error and then closed, under failOnError = true:
\* the promise and its three field promises are rejected.
C9_Witness ==
  \E i \in ChildIds :
    LET ch == children[i]
    IN  /\ Len(ch.events) = 2
        /\ ch.events[1].type = "error"
        /\ ch.events[2].type = "close"
        /\ FailOnError(ch.opts)
        /\ ch.promise.state = "rejected"
        /\ \A f \in {"status", "stdout", "stderr"} : ch.fields[f].state = "rejected"

\* C10: a wrapAsync wrapper has no pending tokens once a call has returned
\* its promise, while that child still runs; the arguments of every child
\* are, whatever was read or called or closed since, the tokens staged
\* between the call before it and its own call, followed by the arguments
\* of its call.
C10_ArgvFixedAtCall ==
  fn = "execAsync" =>
    /\ \A i \in ChildIds :
         children[i].args = children[i].tokens \o FilterBoolean(children[i].A.arr)
    /\ (last.op = "call" /\ last.outcome.kind = "promise") => args = NoArgs
    /\ Ensure(args).arr = staged

\* Two children of one wrapper, the first still running when the second
\* was called, each with the tokens staged for it and a token pending.
C10_Witness ==
  /\ fn = "execAsync"
  /\ Len(children) = 2
  /\ children[1].promise.state = "pending"
  /\ children[1].args = <<"branch", "-v">>
  /\ children[2].args = <<"length">>
  /\ args = SomeArgs(<<"branch">>)

====
